---- MODULE Spec2Model ----
(***************************************************************************)
(* Google Meet MCP server: the tool gateway (GoogleMeetMcpServer in        *)
(* google-meet-mcp-server/src/index.js) and the calendar client it drives  *)
(* (GoogleMeetAPI).  One tool call is one action: session initialization,  *)
(* argument checks, the provider operations and the error envelope.        *)
(* The calendar provider, the auth server and the two files are the        *)
(* environment; each of their operations may fail.                         *)
(***************************************************************************)
EXTENDS Naturals, Sequences, FiniteSets, TLC

VARIABLES
    credFile,   \* the file at credentialsPath
    tokenFile,  \* the file at tokenPath
    calendar,   \* GoogleMeetAPI.calendar: null, or the client and its token
    now,        \* Date.now()
    events,     \* the provider's "primary" calendar: event id -> event resource
    nextId,     \* number of the next event the provider creates
    writes,     \* successful inserts, updates and deletes so far
    request,    \* the tool call handled last
    outcome,    \* how that call ended: a returned envelope or a thrown McpError
    ops,        \* file, auth-server and provider operations of that call, in order
    fetched,    \* the resource the call's events.get/list returned
    sent,       \* the resource the call passed to events.insert / events.update
    retrying,   \* the call ran initialize() after an earlier call had failed in it
    inflight,   \* the calls being handled step by step: where each is, and its locals
    crashes     \* how many times the process has died and been started again

vars == <<credFile, tokenFile, calendar, now, events, nextId, writes, request, outcome, ops,
          fetched, sent, retrying, inflight, crashes>>

(***************************************************************************)
(* Bounds                                                                  *)
(***************************************************************************)
MaxWrites == 1      \* successful inserts, updates and deletes in one behaviour
MaxTime == 2        \* the clock runs from 1 to MaxTime

(***************************************************************************)
(* Values                                                                  *)
(***************************************************************************)
EventIds == <<"e1", "e2", "e3", "e4", "e5", "e6">>
TimeNames == <<"T1", "T2", "T3", "T4">>

\* ISO-8601 instants are ordered by the provider; "" and other text have no instant.
Rank(s) == IF \E i \in 1..Len(TimeNames) : TimeNames[i] = s
           THEN CHOOSE i \in 1..Len(TimeNames) : TimeNames[i] = s
           ELSE 0

\* new Date().toISOString()
ToISOString(n) == IF n \in 1..Len(TimeNames) THEN TimeNames[n] ELSE "T4"

Restrict(f, S) == [k \in S |-> f[k]]

RECURSIVE Join(_, _)
\* Array.prototype.join
Join(seq, sep) ==
    IF Len(seq) = 0 THEN ""
    ELSE IF Len(seq) = 1 THEN seq[1]
    ELSE seq[1] \o sep \o Join(Tail(seq), sep)

(***************************************************************************)
(* Files and the session                                                   *)
(***************************************************************************)
NoCalendar == [set |-> FALSE, access |-> 0]

CredFiles ==
    { [state |-> "missing",   web |-> FALSE, installed |-> FALSE],
      [state |-> "malformed", web |-> FALSE, installed |-> FALSE],
      [state |-> "ok",        web |-> FALSE, installed |-> FALSE],
      [state |-> "ok",        web |-> TRUE,  installed |-> FALSE],
      [state |-> "ok",        web |-> FALSE, installed |-> TRUE],
      [state |-> "ok",        web |-> TRUE,  installed |-> TRUE] }

TokenFiles ==
    { [state |-> "missing",   access |-> 0, expiry_date |-> 0],
      [state |-> "malformed", access |-> 0, expiry_date |-> 0],
      [state |-> "ok",        access |-> 0, expiry_date |-> 0],
      [state |-> "ok",        access |-> 0, expiry_date |-> 1] }

WebCredentials == [state |-> "ok", web |-> TRUE, installed |-> FALSE]
PlainToken == [state |-> "ok", access |-> 0, expiry_date |-> 0]

\* the token file as fs.writeFile leaves it when it has opened the file, which empties it,
\* and has not written the data
Truncated == [state |-> "malformed", access |-> 0, expiry_date |-> 0]

NoValidCredentials ==
    "No valid credentials. Please run the setup script first to authorize access."

InitResult(ok, msg, cal, tf, o) ==
    [ok |-> ok, message |-> msg, calendar |-> cal, tokenFile |-> tf, ops |-> o]

\* the comparison alone, without the test that the expiry is there
TokenExpired_ZeroIsPast(token) == token.expiry_date < now

\* token.expiry_date && token.expiry_date < Date.now()
TokenExpired(token) == token.expiry_date # 0 /\ token.expiry_date < now

\* a refresh whose result is used for the session and never written to the token file
LoadToken_NoPersist ==
    IF tokenFile.state # "ok"
    THEN { InitResult(FALSE, NoValidCredentials, NoCalendar, tokenFile,
                      <<"readCredentials", "readToken">>) }
    ELSE IF ~TokenExpired(tokenFile)
    THEN { InitResult(TRUE, "", [set |-> TRUE, access |-> tokenFile.access], tokenFile,
                      <<"readCredentials", "readToken">>) }
    ELSE { InitResult(FALSE, NoValidCredentials, NoCalendar, tokenFile,
                      <<"readCredentials", "readToken", "refreshToken">>),
           InitResult(TRUE, "", [set |-> TRUE, access |-> 1], tokenFile,
                      <<"readCredentials", "readToken", "refreshToken">>) }

\* The token part of initialize(): every throw inside is replaced by one message.
LoadToken ==
    IF tokenFile.state # "ok"
    THEN { InitResult(FALSE, NoValidCredentials, NoCalendar, tokenFile,
                      <<"readCredentials", "readToken">>) }
    ELSE IF ~TokenExpired(tokenFile)
    THEN { InitResult(TRUE, "", [set |-> TRUE, access |-> tokenFile.access], tokenFile,
                      <<"readCredentials", "readToken">>) }
    ELSE LET fresh == [state |-> "ok", access |-> 1, expiry_date |-> now + 1]
         IN  { \* the auth server rejects the refresh, or is unreachable
               InitResult(FALSE, NoValidCredentials, NoCalendar, tokenFile,
                          <<"readCredentials", "readToken", "refreshToken">>),
               \* the refresh succeeds and the write of the token file fails, before the
               \* file is opened or after
               InitResult(FALSE, NoValidCredentials, NoCalendar, tokenFile,
                          <<"readCredentials", "readToken", "refreshToken", "writeToken">>),
               InitResult(FALSE, NoValidCredentials, NoCalendar, Truncated,
                          <<"readCredentials", "readToken", "refreshToken", "writeToken">>),
               \* both succeed
               InitResult(TRUE, "", [set |-> TRUE, access |-> fresh.access], fresh,
                          <<"readCredentials", "readToken", "refreshToken", "writeToken">>) }

\* initialize() with a check that rejects a file holding both sections
Initialize_ExactlyOne ==
    IF credFile.state = "missing"
    THEN { InitResult(FALSE, "ENOENT: no such file or directory", NoCalendar, tokenFile,
                      <<"readCredentials">>) }
    ELSE IF credFile.state = "malformed"
    THEN { InitResult(FALSE, "Unexpected token in JSON", NoCalendar, tokenFile,
                      <<"readCredentials">>) }
    ELSE IF credFile.web = credFile.installed
    THEN { InitResult(FALSE,
               "Invalid credentials file format. Must contain \"web\" or \"installed\" property.",
               NoCalendar, tokenFile, <<"readCredentials">>) }
    ELSE LoadToken

\* GoogleMeetAPI.initialize(): the set of ways it can end in the current state.
Initialize ==
    IF credFile.state = "missing"
    THEN { InitResult(FALSE, "ENOENT: no such file or directory", NoCalendar, tokenFile,
                      <<"readCredentials">>) }
    ELSE IF credFile.state = "malformed"
    THEN { InitResult(FALSE, "Unexpected token in JSON", NoCalendar, tokenFile,
                      <<"readCredentials">>) }
    ELSE IF ~(credFile.web \/ credFile.installed)
    THEN { InitResult(FALSE,
               "Invalid credentials file format. Must contain \"web\" or \"installed\" property.",
               NoCalendar, tokenFile, <<"readCredentials">>) }
    ELSE LoadToken

(***************************************************************************)
(* Provider event resources and the Meeting they map to                    *)
(***************************************************************************)
NoConf == [present |-> FALSE, entryPoints |-> <<>>]
PhoneOnly == [present |-> TRUE,
              entryPoints |-> <<[entryPointType |-> "phone", uri |-> "tel:+1-555"]>>]
PhoneAndVideo == [present |-> TRUE,
                  entryPoints |-> <<[entryPointType |-> "phone", uri |-> "tel:+1-555"],
                                    [entryPointType |-> "video", uri |-> "https://meet/abc"]>>]
BlankThenVideo == [present |-> TRUE,
                   entryPoints |-> <<[entryPointType |-> "video", uri |-> ""],
                                     [entryPointType |-> "video", uri |-> "https://meet/xyz"]>>]

\* what the provider may attach to an inserted event that carries a createRequest
ConfOptions == {NoConf, PhoneOnly, PhoneAndVideo, BlankThenVideo}

NoCreateRequest == [present |-> FALSE, requestId |-> 0]

NoEvent == [id |-> "", summary |-> "", description |-> "",
            start |-> [dateTime |-> "", date |-> "", timeZone |-> ""],
            end |-> [dateTime |-> "", date |-> "", timeZone |-> ""],
            attendees |-> <<>>, conferenceData |-> NoConf,
            createRequest |-> NoCreateRequest]

\* a map that builds the attendee list back to front
FormatAttendees_Reversed(emails) ==
    [i \in 1..Len(emails) |-> [email |-> emails[Len(emails) + 1 - i], responseStatus |-> ""]]

\* attendees.map((email) => ({ email }))
FormatAttendees(emails) ==
    [i \in 1..Len(emails) |-> [email |-> emails[i], responseStatus |-> ""]]

\* a loop that takes the first entry point whatever its type
MeetLink_FirstEntry(entryPoints) ==
    IF Len(entryPoints) = 0 THEN "" ELSE Head(entryPoints).uri

\* a loop that goes on past a "video" entry point without a uri
MeetLink_FirstWithUri(entryPoints) ==
    LET hits == { i \in 1..Len(entryPoints) :
                    entryPoints[i].entryPointType = "video" /\ entryPoints[i].uri # "" }
    IN  IF hits = {} THEN ""
        ELSE entryPoints[CHOOSE i \in hits : \A j \in hits : i <= j].uri

RECURSIVE MeetLink(_)
\* the loop of _formatMeetingData: the uri of the first "video" entry point, then break
MeetLink(entryPoints) ==
    IF Len(entryPoints) = 0 THEN ""
    ELSE IF Head(entryPoints).entryPointType = "video" THEN Head(entryPoints).uri
    ELSE MeetLink(Tail(entryPoints))

\* a || b on strings
OrElse(a, b) == IF a # "" THEN a ELSE b

\* GoogleMeetAPI._formatMeetingData: <<>> is null, <<m>> the meeting
FormatMeetingData(event) ==
    IF ~event.conferenceData.present THEN <<>>
    ELSE LET meetLink == MeetLink(event.conferenceData.entryPoints)
         IN  IF meetLink = "" THEN <<>>
             ELSE << [id |-> event.id,
                      summary |-> event.summary,
                      description |-> event.description,
                      meet_link |-> meetLink,
                      start_time |-> OrElse(event.start.dateTime, event.start.date),
                      end_time |-> OrElse(event.end.dateTime, event.end.date),
                      attendees |-> [i \in 1..Len(event.attendees) |->
                                        [email |-> event.attendees[i].email,
                                         response_status |-> event.attendees[i].responseStatus]]] >>

(***************************************************************************)
(* The calendar provider (events.list / get / insert / update / delete on  *)
(* calendarId "primary")                                                   *)
(***************************************************************************)
UpstreamFailure == "upstream request failed"

EventIndex(id) == CHOOSE i \in 1..Len(EventIds) : EventIds[i] = id

\* orderBy: "startTime"
Before(a, b) ==
    \/ Rank(events[a].start.dateTime) < Rank(events[b].start.dateTime)
    \/ /\ Rank(events[a].start.dateTime) = Rank(events[b].start.dateTime)
       /\ EventIndex(a) < EventIndex(b)

RECURSIVE SortByStart(_)
SortByStart(ids) ==
    IF ids = {} THEN <<>>
    ELSE LET first == CHOOSE a \in ids : \A b \in ids \ {a} : Before(a, b)
         IN  <<events[first]>> \o SortByStart(ids \ {first})

\* the items of events.list: the window, the order, then the first maxResults
ListItems(maxResults, timeMin, timeMax) ==
    LET inWindow == { id \in DOMAIN events :
                        /\ Rank(events[id].end.dateTime) > Rank(timeMin)
                        /\ (timeMax # "" => Rank(events[id].start.dateTime) < Rank(timeMax)) }
        ordered == SortByStart(inWindow)
    IN  SubSeq(ordered, 1, IF Len(ordered) < maxResults THEN Len(ordered) ELSE maxResults)

(***************************************************************************)
(* GoogleMeetAPI: each method is the set of ways the call can end in the   *)
(* current state.  ok = FALSE is a thrown Error with that message.         *)
(***************************************************************************)
ApiResult(ok, msg, meetings, ev, nid, o, f, s) ==
    [ok |-> ok, cause |-> "none", message |-> msg, meetings |-> meetings, events |-> ev,
     nextId |-> nid, ops |-> o, fetched |-> f, sent |-> s]

\* cause names the throw site: "upstream" a rejected provider request, "conference" the
\* check of the returned event, "type" a TypeError of the client's own code
ApiThrow(cause, msg, ev, nid, o, f, s) ==
    [ApiResult(FALSE, msg, <<>>, ev, nid, o, f, s) EXCEPT !.cause = cause]

RECURSIVE FilterMeetings(_)
\* the loop of listMeetings over response.data.items
FilterMeetings(items) ==
    IF Len(items) = 0 THEN <<>>
    ELSE (IF Head(items).conferenceData.present
          THEN FormatMeetingData(Head(items))
          ELSE <<>>) \o FilterMeetings(Tail(items))

\* listMeetings that asks for every event of the window, filters, and then cuts the
\* meetings to maxResults
ListMeetings_FilterThenLimit(maxResults, timeMin, timeMax) ==
    LET tMin == IF timeMin = "" THEN ToISOString(now) ELSE timeMin
        failed == ApiThrow("upstream", "Error listing meetings: " \o UpstreamFailure,
                           events, nextId, <<"events.list">>, <<>>, NoEvent)
    IN  IF ~maxResults.isNumber THEN {failed}
        ELSE LET items == ListItems(Cardinality(DOMAIN events), tMin, timeMax)
                 meetings == FilterMeetings(items)
             IN  { failed,
                   ApiResult(TRUE, "",
                             SubSeq(meetings, 1, IF Len(meetings) < maxResults.n
                                                 THEN Len(meetings) ELSE maxResults.n),
                             events, nextId, <<"events.list">>, items, NoEvent) }

\* GoogleMeetAPI.listMeetings; maxResults is [isNumber, n], "" is null
ListMeetings(maxResults, timeMin, timeMax) ==
    LET tMin == IF timeMin = "" THEN ToISOString(now) ELSE timeMin
        failed == ApiThrow("upstream", "Error listing meetings: " \o UpstreamFailure,
                           events, nextId, <<"events.list">>, <<>>, NoEvent)
    IN  IF ~maxResults.isNumber THEN {failed}
        ELSE LET items == ListItems(maxResults.n, tMin, timeMax)
             IN  { failed,
                   ApiResult(TRUE, "", FilterMeetings(items), events, nextId,
                             <<"events.list">>, items, NoEvent) }

\* getMeeting without its two checks of the fetched event
GetMeeting_Unchecked(meetingId) ==
    LET failed == ApiThrow("upstream", "Error getting meeting: " \o UpstreamFailure,
                           events, nextId, <<"events.get">>, <<>>, NoEvent)
    IN  IF meetingId \notin DOMAIN events THEN {failed}
        ELSE { failed,
               ApiResult(TRUE, "", FormatMeetingData(events[meetingId]), events, nextId,
                         <<"events.get">>, <<events[meetingId]>>, NoEvent) }

\* GoogleMeetAPI.getMeeting
GetMeeting(meetingId) ==
    LET failed == ApiThrow("upstream", "Error getting meeting: " \o UpstreamFailure,
                           events, nextId, <<"events.get">>, <<>>, NoEvent)
    IN  IF meetingId \notin DOMAIN events THEN {failed}
        ELSE LET event == events[meetingId]
                 meeting == FormatMeetingData(event)
             IN  { failed,
                   IF ~event.conferenceData.present
                   THEN ApiThrow("conference", "Error getting meeting: Event with ID " \o meetingId
                                   \o " does not have Google Meet conferencing data",
                                 events, nextId, <<"events.get">>, <<event>>, NoEvent)
                   ELSE IF meeting = <<>>
                   THEN ApiThrow("conference", "Error getting meeting: Failed to format meeting data for event ID "
                                   \o meetingId,
                                 events, nextId, <<"events.get">>, <<event>>, NoEvent)
                   ELSE ApiResult(TRUE, "", meeting, events, nextId,
                                  <<"events.get">>, <<event>>, NoEvent) }

\* the returned event formatted without either check: null becomes a meeting with no link
CheckReturned_Unchecked(event, noConfMsg, noFormatMsg, prefix, ev, nid, o, f, s) ==
    ApiResult(TRUE, "",
              IF FormatMeetingData(event) # <<>> THEN FormatMeetingData(event)
              ELSE << [id |-> event.id, summary |-> event.summary,
                       description |-> event.description, meet_link |-> "",
                       start_time |-> event.start.dateTime, end_time |-> event.end.dateTime,
                       attendees |-> [i \in 1..Len(event.attendees) |->
                                         [email |-> event.attendees[i].email,
                                          response_status |-> event.attendees[i].responseStatus]]] >>,
              ev, nid, o, f, s)

\* the conferencing check both createMeeting and updateMeeting make on the returned event
CheckReturned(event, noConfMsg, noFormatMsg, prefix, ev, nid, o, f, s) ==
    IF ~event.conferenceData.present
    THEN ApiThrow("conference", prefix \o noConfMsg, ev, nid, o, f, s)
    ELSE IF FormatMeetingData(event) = <<>>
    THEN ApiThrow("conference", prefix \o noFormatMsg, ev, nid, o, f, s)
    ELSE ApiResult(TRUE, "", FormatMeetingData(event), ev, nid, o, f, s)

\* GoogleMeetAPI.createMeeting; attendees is [isArray, items]
CreateMeeting(summary, startTime, endTime, description, attendees, timeZone) ==
    IF ~attendees.isArray
    THEN { ApiThrow("type", "attendees.map is not a function", events, nextId, <<>>, <<>>, NoEvent) }
    ELSE
    LET event == [id |-> "", summary |-> summary, description |-> description,
                  start |-> [dateTime |-> startTime, date |-> "", timeZone |-> timeZone],
                  end |-> [dateTime |-> endTime, date |-> "", timeZone |-> timeZone],
                  attendees |-> FormatAttendees(attendees.items),
                  conferenceData |-> NoConf,
                  createRequest |-> [present |-> TRUE, requestId |-> now]]
        id == EventIds[nextId]
    IN  { ApiThrow("upstream", "Error creating meeting: " \o UpstreamFailure,
                   events, nextId, <<"events.insert">>, <<>>, event) }
        \cup
        { LET createdEvent == [event EXCEPT !.id = id, !.conferenceData = conf,
                                            !.createRequest = NoCreateRequest]
              stored == [k \in DOMAIN events \cup {id} |->
                            IF k = id THEN createdEvent ELSE events[k]]
          IN  CheckReturned(createdEvent,
                            "Failed to create Google Meet conferencing data",
                            "Failed to format meeting data for newly created event",
                            "Error creating meeting: ",
                            stored, nextId + 1, <<"events.insert">>, <<>>, event)
          : conf \in ConfOptions }

\* updateMeeting with "if (summary)" tests in place of "!== undefined"
UpdateMeeting_Truthy(meetingId, updateData) ==
    LET Given(k) == k \in DOMAIN updateData /\ (k = "attendees" \/ updateData[k] # "")
        failedGet == ApiThrow("upstream", "Error updating meeting: " \o UpstreamFailure,
                              events, nextId, <<"events.get">>, <<>>, NoEvent)
    IN  IF meetingId \notin DOMAIN events THEN {failedGet}
        ELSE
        LET old == events[meetingId]
            e1 == IF Given("summary") THEN [old EXCEPT !.summary = updateData.summary] ELSE old
            e2 == IF Given("description")
                  THEN [e1 EXCEPT !.description = updateData.description] ELSE e1
            e3 == IF Given("startTime")
                  THEN [e2 EXCEPT !.start.dateTime = updateData.startTime] ELSE e2
            e4 == IF Given("endTime")
                  THEN [e3 EXCEPT !.end.dateTime = updateData.endTime] ELSE e3
        IN  IF Given("attendees") /\ ~updateData.attendees.isArray
            THEN { failedGet,
                   ApiThrow("type", "Error updating meeting: attendees.map is not a function",
                            events, nextId, <<"events.get">>, <<old>>, NoEvent) }
            ELSE
            LET event == IF Given("attendees")
                         THEN [e4 EXCEPT !.attendees = FormatAttendees(updateData.attendees.items)]
                         ELSE e4
                stored == [events EXCEPT ![meetingId] = event]
            IN  { failedGet,
                  ApiThrow("upstream", "Error updating meeting: " \o UpstreamFailure,
                           events, nextId, <<"events.get", "events.update">>, <<old>>, event),
                  CheckReturned(event,
                                "Updated event does not have Google Meet conferencing data",
                                "Failed to format meeting data for updated event",
                                "Error updating meeting: ",
                                stored, nextId, <<"events.get", "events.update">>,
                                <<old>>, event) }

\* GoogleMeetAPI.updateMeeting; updateData holds the keys that are not undefined
UpdateMeeting(meetingId, updateData) ==
    LET Given(k) == k \in DOMAIN updateData
        failedGet == ApiThrow("upstream", "Error updating meeting: " \o UpstreamFailure,
                              events, nextId, <<"events.get">>, <<>>, NoEvent)
    IN  IF meetingId \notin DOMAIN events THEN {failedGet}
        ELSE
        LET old == events[meetingId]
            e1 == IF Given("summary") THEN [old EXCEPT !.summary = updateData.summary] ELSE old
            e2 == IF Given("description")
                  THEN [e1 EXCEPT !.description = updateData.description] ELSE e1
            e3 == IF Given("startTime")
                  THEN [e2 EXCEPT !.start.dateTime = updateData.startTime] ELSE e2
            e4 == IF Given("endTime")
                  THEN [e3 EXCEPT !.end.dateTime = updateData.endTime] ELSE e3
        IN  IF Given("attendees") /\ ~updateData.attendees.isArray
            THEN { failedGet,
                   ApiThrow("type", "Error updating meeting: attendees.map is not a function",
                            events, nextId, <<"events.get">>, <<old>>, NoEvent) }
            ELSE
            LET event == IF Given("attendees")
                         THEN [e4 EXCEPT !.attendees = FormatAttendees(updateData.attendees.items)]
                         ELSE e4
                stored == [events EXCEPT ![meetingId] = event]
            IN  { failedGet,
                  ApiThrow("upstream", "Error updating meeting: " \o UpstreamFailure,
                           events, nextId, <<"events.get", "events.update">>, <<old>>, event),
                  CheckReturned(event,
                                "Updated event does not have Google Meet conferencing data",
                                "Failed to format meeting data for updated event",
                                "Error updating meeting: ",
                                stored, nextId, <<"events.get", "events.update">>,
                                <<old>>, event) }

\* deleteMeeting that takes "not found" and "gone" for done
DeleteMeeting_Swallows(meetingId) ==
    LET failed == ApiThrow("upstream", "Error deleting meeting: " \o UpstreamFailure,
                           events, nextId, <<"events.delete">>, <<>>, NoEvent)
    IN  IF meetingId \notin DOMAIN events
        THEN { failed,
               ApiResult(TRUE, "", <<>>, events, nextId, <<"events.delete">>, <<>>, NoEvent) }
        ELSE { failed,
               ApiResult(TRUE, "", <<>>, [k \in DOMAIN events \ {meetingId} |-> events[k]],
                         nextId, <<"events.delete">>, <<>>, NoEvent) }

\* deleteMeeting that fetches the event first and refuses one that is not a meeting
DeleteMeeting_ChecksMeeting(meetingId) ==
    LET failedGet == ApiThrow("upstream", "Error deleting meeting: " \o UpstreamFailure,
                              events, nextId, <<"events.get">>, <<>>, NoEvent)
        failed == ApiThrow("upstream", "Error deleting meeting: " \o UpstreamFailure,
                           events, nextId, <<"events.get", "events.delete">>, <<>>, NoEvent)
    IN  IF meetingId \notin DOMAIN events THEN {failedGet}
        ELSE IF FormatMeetingData(events[meetingId]) = <<>>
        THEN { failedGet,
               ApiThrow("conference", "Error deleting meeting: Event with ID " \o meetingId
                          \o " does not have Google Meet conferencing data",
                        events, nextId, <<"events.get">>, <<events[meetingId]>>, NoEvent) }
        ELSE { failedGet, failed,
               ApiResult(TRUE, "", <<>>, [k \in DOMAIN events \ {meetingId} |-> events[k]],
                         nextId, <<"events.get", "events.delete">>, <<>>, NoEvent) }

\* GoogleMeetAPI.deleteMeeting
DeleteMeeting(meetingId) ==
    LET failed == ApiThrow("upstream", "Error deleting meeting: " \o UpstreamFailure,
                           events, nextId, <<"events.delete">>, <<>>, NoEvent)
    IN  IF meetingId \notin DOMAIN events THEN {failed}
        ELSE { failed,
               ApiResult(TRUE, "", <<>>, [k \in DOMAIN events \ {meetingId} |-> events[k]],
                         nextId, <<"events.delete">>, <<>>, NoEvent) }

(***************************************************************************)
(* GoogleMeetMcpServer.handleCallTool                                      *)
(***************************************************************************)
\* a registry whose create_meeting schema leaves end_time out of "required"
HandleListTools_EndTimeOptional ==
    << [name |-> "list_meetings",
        properties |-> {"max_results", "time_min", "time_max"},
        required |-> {}],
       [name |-> "get_meeting", properties |-> {"meeting_id"}, required |-> {"meeting_id"}],
       [name |-> "create_meeting",
        properties |-> {"summary", "description", "start_time", "end_time", "attendees",
                        "time_zone"},
        required |-> {"summary", "start_time"}],
       [name |-> "update_meeting",
        properties |-> {"meeting_id", "summary", "description", "start_time", "end_time",
                        "attendees"},
        required |-> {"meeting_id"}],
       [name |-> "delete_meeting", properties |-> {"meeting_id"}, required |-> {"meeting_id"}] >>

\* GoogleMeetMcpServer.handleListTools: name, inputSchema.properties and
\* inputSchema.required of each tool, in the order of the answer
HandleListTools ==
    << [name |-> "list_meetings",
        properties |-> {"max_results", "time_min", "time_max"},
        required |-> {}],
       [name |-> "get_meeting", properties |-> {"meeting_id"}, required |-> {"meeting_id"}],
       [name |-> "create_meeting",
        properties |-> {"summary", "description", "start_time", "end_time", "attendees",
                        "time_zone"},
        required |-> {"summary", "start_time", "end_time"}],
       [name |-> "update_meeting",
        properties |-> {"meeting_id", "summary", "description", "start_time", "end_time",
                        "attendees"},
        required |-> {"meeting_id"}],
       [name |-> "delete_meeting", properties |-> {"meeting_id"}, required |-> {"meeting_id"}] >>

ToolNames == {"list_meetings", "get_meeting", "create_meeting", "update_meeting",
              "delete_meeting"}
DefaultMaxResults == 10

Has(args, k) == k \in DOMAIN args
\* the value of a string argument; undefined and "" are both falsy
StrArg(args, k) == IF Has(args, k) THEN args[k] ELSE ""
Falsy(args, k) == StrArg(args, k) = ""

Thrown(code, text) ==
    [kind |-> "thrown", cause |-> "protocol", code |-> code, text |-> text, shape |-> "none", meetings |-> <<>>,
     events |-> events, nextId |-> nextId, ops |-> <<>>, fetched |-> <<>>, sent |-> NoEvent]

\* a catch block that rethrows whatever it caught
Envelope_Rethrows(r, shape, text) ==
    [kind |-> IF r.ok THEN "success" ELSE "thrown",
     cause |-> r.cause,
     code |-> "",
     text |-> IF r.ok THEN text ELSE "Error: " \o r.message,
     shape |-> IF r.ok THEN shape ELSE "text",
     meetings |-> r.meetings,
     events |-> r.events, nextId |-> r.nextId, ops |-> r.ops,
     fetched |-> r.fetched, sent |-> r.sent]

\* the return after an API call, or the catch block's envelope for its Error
Envelope(r, shape, text) ==
    [kind |-> IF r.ok THEN "success" ELSE "isError",
     cause |-> r.cause,
     code |-> "",
     text |-> IF r.ok THEN text ELSE "Error: " \o r.message,
     shape |-> IF r.ok THEN shape ELSE "text",
     meetings |-> r.meetings,
     events |-> r.events, nextId |-> r.nextId, ops |-> r.ops,
     fetched |-> r.fetched, sent |-> r.sent]

CallListMeetings(args) ==
    LET maxResults == IF ~Has(args, "max_results")
                         \/ (args.max_results.isNumber /\ args.max_results.n = 0)
                      THEN [isNumber |-> TRUE, n |-> DefaultMaxResults]
                      ELSE args.max_results
    IN  { Envelope(r, "array", "") :
            r \in ListMeetings(maxResults, StrArg(args, "time_min"), StrArg(args, "time_max")) }

\* a handler that answers from the events the call before it fetched
CallGetMeeting_Cached(args) ==
    LET hits == { i \in 1..Len(fetched) : /\ fetched[i].id = StrArg(args, "meeting_id")
                                          /\ FormatMeetingData(fetched[i]) # <<>> }
    IN  IF Falsy(args, "meeting_id")
        THEN { Thrown("InvalidParams", "meeting_id is required") }
        ELSE IF hits # {}
        THEN { Envelope(ApiResult(TRUE, "", FormatMeetingData(fetched[CHOOSE i \in hits : TRUE]),
                                  events, nextId, <<"events.get">>, fetched, NoEvent),
                        "object", "") }
        ELSE { Envelope(r, "object", "") : r \in GetMeeting(args.meeting_id) }

CallGetMeeting(args) ==
    IF Falsy(args, "meeting_id")
    THEN { Thrown("InvalidParams", "meeting_id is required") }
    ELSE { Envelope(r, "object", "") : r \in GetMeeting(args.meeting_id) }

MissingOf(args) ==
    (IF Falsy(args, "summary") THEN <<"summary">> ELSE <<>>)
    \o (IF Falsy(args, "start_time") THEN <<"start_time">> ELSE <<>>)
    \o (IF Falsy(args, "end_time") THEN <<"end_time">> ELSE <<>>)

CallCreateMeeting(args) ==
    IF Falsy(args, "summary") \/ Falsy(args, "start_time") \/ Falsy(args, "end_time")
    THEN { Thrown("InvalidParams",
                  "Missing required parameters: " \o Join(MissingOf(args), ", ")) }
    ELSE { Envelope(r, "object", "") :
             r \in CreateMeeting(args.summary, args.start_time, args.end_time,
                                 StrArg(args, "description"),
                                 IF Has(args, "attendees") THEN args.attendees
                                 ELSE [isArray |-> TRUE, items |-> <<>>],
                                 IF Has(args, "time_zone") THEN args.time_zone ELSE "UTC") }

\* updateData: the optional arguments that are not undefined, under the API's names
UpdateData(args) ==
    LET names == [summary |-> "summary", description |-> "description",
                  startTime |-> "start_time", endTime |-> "end_time",
                  attendees |-> "attendees"]
    IN  [k \in {n \in DOMAIN names : Has(args, names[n])} |-> args[names[k]]]

CallUpdateMeeting(args) ==
    IF Falsy(args, "meeting_id")
    THEN { Thrown("InvalidParams", "meeting_id is required") }
    ELSE IF DOMAIN UpdateData(args) = {}
    THEN { Thrown("InvalidParams", "At least one field to update must be provided") }
    ELSE { Envelope(r, "object", "") : r \in UpdateMeeting(args.meeting_id, UpdateData(args)) }

CallDeleteMeeting(args) ==
    IF Falsy(args, "meeting_id")
    THEN { Thrown("InvalidParams", "meeting_id is required") }
    ELSE { Envelope(r, "text", "Meeting successfully deleted") :
             r \in DeleteMeeting(args.meeting_id) }

\* the if / else-if chain on toolName inside the try block, and its catch
Dispatch(req) ==
    IF req.name = "list_meetings" THEN CallListMeetings(req.args)
    ELSE IF req.name = "get_meeting" THEN CallGetMeeting(req.args)
    ELSE IF req.name = "create_meeting" THEN CallCreateMeeting(req.args)
    ELSE IF req.name = "update_meeting" THEN CallUpdateMeeting(req.args)
    ELSE IF req.name = "delete_meeting" THEN CallDeleteMeeting(req.args)
    ELSE { Thrown("MethodNotFound", "Unknown tool: " \o req.name) }

\* a handler that remembers a failed initialize() and does not run it again
EnsureInitialized_Terminal ==
    IF calendar.set THEN { InitResult(TRUE, "", calendar, tokenFile, <<>>) }
    ELSE IF outcome.cause = "session"
    THEN { InitResult(FALSE, NoValidCredentials, NoCalendar, tokenFile, <<>>) }
    ELSE Initialize

\* a catch around initialize() that does not return
EnsureInitialized_Continues ==
    IF calendar.set THEN { InitResult(TRUE, "", calendar, tokenFile, <<>>) }
    ELSE { [i EXCEPT !.ok = TRUE] : i \in Initialize }

\* if (!this.googleMeet.calendar) await this.googleMeet.initialize()
EnsureInitialized ==
    IF calendar.set THEN { InitResult(TRUE, "", calendar, tokenFile, <<>>) } ELSE Initialize

Outcome(kind, cause, code, text, shape, meetings) ==
    [kind |-> kind, cause |-> cause, code |-> code, text |-> text, shape |-> shape,
     meetings |-> meetings]

NoOutcome == Outcome("none", "none", "", "", "none", <<>>)

\* a handler that calls initialize() on every call, whatever this.googleMeet.calendar is
HandleCallTool_Reinitializes(req) ==
    /\ request' = req
    /\ retrying' = (~calendar.set /\ outcome.cause = "session")
    /\ \E i \in Initialize :
         /\ tokenFile' = i.tokenFile
         /\ calendar' = i.calendar
         /\ IF ~i.ok
            THEN /\ outcome' = Outcome("isError", "session", "",
                                       "Error initializing Google Meet API: " \o i.message,
                                       "text", <<>>)
                 /\ ops' = i.ops
                 /\ fetched' = <<>>
                 /\ sent' = NoEvent
                 /\ UNCHANGED <<events, nextId, writes>>
            ELSE \E r \in Dispatch(req) :
                 /\ outcome' = Outcome(r.kind, r.cause, r.code, r.text, r.shape, r.meetings)
                 /\ ops' = i.ops \o r.ops
                 /\ fetched' = r.fetched
                 /\ sent' = r.sent
                 /\ events' = r.events
                 /\ nextId' = r.nextId
                 /\ writes' = IF r.events # events THEN writes + 1 ELSE writes
    /\ UNCHANGED <<credFile, now, inflight, crashes>>

HandleCallTool(req) ==
    /\ request' = req
    /\ retrying' = (~calendar.set /\ outcome.cause = "session")
    /\ \E i \in EnsureInitialized :
         /\ tokenFile' = i.tokenFile
         /\ calendar' = i.calendar
         /\ IF ~i.ok
            THEN /\ outcome' = Outcome("isError", "session", "",
                                       "Error initializing Google Meet API: " \o i.message,
                                       "text", <<>>)
                 /\ ops' = i.ops
                 /\ fetched' = <<>>
                 /\ sent' = NoEvent
                 /\ UNCHANGED <<events, nextId, writes>>
            ELSE \E r \in Dispatch(req) :
                 /\ outcome' = Outcome(r.kind, r.cause, r.code, r.text, r.shape, r.meetings)
                 /\ ops' = i.ops \o r.ops
                 /\ fetched' = r.fetched
                 /\ sent' = r.sent
                 /\ events' = r.events
                 /\ nextId' = r.nextId
                 /\ writes' = IF r.events # events THEN writes + 1 ELSE writes
    /\ UNCHANGED <<credFile, now, inflight, crashes>>

\* how many times op has been performed, in ops
Count(op) == Cardinality({i \in 1..Len(ops) : ops[i] = op})

\* the calls the server may be handling at one time: handleCallTool is async, and the
\* transport starts the next call while an earlier one awaits
Handlers == {1, 2}

\* a handler with no call
Idle == [pc |-> "idle", req |-> [name |-> "", args |-> <<>>],
         token |-> PlainToken, refreshed |-> FALSE, event |-> NoEvent,
         kind |-> "none", text |-> ""]

(***************************************************************************)
(* The environment: the calendar at start, the requests, the clock         *)
(***************************************************************************)
SeedEvents ==
    [e1 |-> [id |-> "e1", summary |-> "Sync", description |-> "Notes",
             start |-> [dateTime |-> "T2", date |-> "", timeZone |-> "UTC"],
             end |-> [dateTime |-> "T3", date |-> "", timeZone |-> "UTC"],
             attendees |-> <<[email |-> "a@x.com", responseStatus |-> "accepted"]>>,
             conferenceData |-> PhoneAndVideo, createRequest |-> NoCreateRequest],
     e2 |-> [id |-> "e2", summary |-> "Lunch", description |-> "",
             start |-> [dateTime |-> "T2", date |-> "", timeZone |-> "UTC"],
             end |-> [dateTime |-> "T3", date |-> "", timeZone |-> "UTC"],
             attendees |-> <<>>,
             conferenceData |-> NoConf, createRequest |-> NoCreateRequest],
     e3 |-> [id |-> "e3", summary |-> "Review", description |-> "",
             start |-> [dateTime |-> "T1", date |-> "", timeZone |-> "UTC"],
             end |-> [dateTime |-> "T4", date |-> "", timeZone |-> "UTC"],
             attendees |-> <<>>,
             conferenceData |-> [present |-> TRUE,
                  entryPoints |-> <<[entryPointType |-> "video", uri |-> "https://meet/r"]>>],
             createRequest |-> NoCreateRequest]]

MeetingIds ==
    DOMAIN SeedEvents
    \cup {EventIds[Cardinality(DOMAIN SeedEvents) + i] : i \in 1..MaxWrites}

\* no argument, each argument alone, and all three together
ListRequests ==
    { [name |-> "list_meetings", args |-> a] :
        a \in { <<>>, [time_min |-> "T1"], [time_max |-> "T3"],
                [max_results |-> [isNumber |-> TRUE, n |-> 1],
                 time_min |-> "T1", time_max |-> "T3"] } }
    \cup
    { [name |-> "list_meetings", args |-> [max_results |-> v]] :
        v \in { [isNumber |-> TRUE, n |-> 0], [isNumber |-> TRUE, n |-> 1],
                [isNumber |-> FALSE, n |-> 0] } }

IdRequests(name) ==
    { [name |-> name, args |-> <<>>] }
    \cup { [name |-> name, args |-> [meeting_id |-> id]] : id \in MeetingIds \cup {"", "nope"} }

FullCreate(attendees) ==
    [summary |-> "Standup", start_time |-> "T2", end_time |-> "T3", description |-> "Daily",
     attendees |-> attendees, time_zone |-> "Europe/Paris"]

CreateKeys == {"summary", "start_time", "end_time", "description", "attendees", "time_zone"}

CreateRequests ==
    { [name |-> "create_meeting", args |-> Restrict(r, S)] :
        r \in [summary : {"", "Standup"}, start_time : {"T2"}, end_time : {"T3"}],
        S \in SUBSET {"summary", "start_time", "end_time"} }
    \cup
    { [name |-> "create_meeting", args |-> Restrict(FullCreate(a), S)] :
        a \in { [isArray |-> TRUE, items |-> <<"a@x.com", "b@x.com">>],
                [isArray |-> FALSE, items |-> <<>>] },
        S \in { CreateKeys, CreateKeys \ {"summary"} } }

UpdateFields(attendees) ==
    [summary |-> "Weekly", description |-> "", start_time |-> "T1", end_time |-> "T4",
     attendees |-> attendees]

UpdateKeys == {"summary", "description", "start_time", "end_time", "attendees"}

NoAttendees == [isArray |-> TRUE, items |-> <<>>]

\* every combination of the optional fields on a meeting (e1); fewer combinations on the
\* other identifiers, on none and on unknown ones
UpdateRequests ==
    { [name |-> "update_meeting",
       args |-> [k \in S \cup {"meeting_id"} |->
                    IF k = "meeting_id" THEN id ELSE UpdateFields(NoAttendees)[k]]] :
        id \in {"e1"}, S \in SUBSET UpdateKeys }
    \cup
    { [name |-> "update_meeting",
       args |-> [k \in S \cup {"meeting_id"} |->
                    IF k = "meeting_id" THEN id ELSE UpdateFields(NoAttendees)[k]]] :
        id \in (MeetingIds \ {"e1"}) \cup {"", "nope"},
        S \in { {}, {"summary"}, UpdateKeys } }
    \cup
    { [name |-> "update_meeting", args |-> Restrict(UpdateFields(NoAttendees), S)] :
        S \in { {}, {"summary"}, UpdateKeys } }
    \cup
    { [name |-> "update_meeting", args |-> [meeting_id |-> id, attendees |-> a]] :
        id \in {"e1", "e2"},
        a \in { [isArray |-> TRUE, items |-> <<"b@x.com">>],
                [isArray |-> FALSE, items |-> <<>>] } }

UnknownRequests ==
    { [name |-> "schedule_meeting", args |-> a] : a \in {<<>>, [meeting_id |-> "e1"]} }

Requests ==
    ListRequests \cup IdRequests("get_meeting") \cup CreateRequests \cup UpdateRequests
    \cup IdRequests("delete_meeting") \cup UnknownRequests

MutatingTools == {"create_meeting", "update_meeting", "delete_meeting"}

Init ==
    /\ credFile \in CredFiles
    /\ tokenFile \in TokenFiles
    /\ credFile = WebCredentials \/ tokenFile = PlainToken
    /\ calendar = NoCalendar
    /\ now = 1
    /\ events = SeedEvents
    /\ nextId = Cardinality(DOMAIN SeedEvents) + 1
    /\ writes = 0
    /\ request = [name |-> "", args |-> <<>>]
    /\ outcome = NoOutcome
    /\ ops = <<>>
    /\ fetched = <<>>
    /\ sent = NoEvent
    /\ retrying = FALSE
    /\ inflight = [p \in Handlers |-> Idle]
    /\ crashes = 0

\* the transport delivers one tool call; it is handled to its end
Call ==
    \E req \in Requests :
        /\ req.name \in MutatingTools => writes < MaxWrites
        /\ HandleCallTool(req)

\* time passes
Tick ==
    /\ now < MaxTime
    /\ now' = now + 1
    /\ UNCHANGED <<credFile, tokenFile, calendar, events, nextId, writes, request, outcome,
                   ops, fetched, sent, retrying, inflight, crashes>>

Next == Call \/ Tick

Spec == Init /\ [][Next]_vars

(***************************************************************************)
(* The same server step by step: every await of handleCallTool,            *)
(* initialize() and updateMeeting is a point where another call, or the    *)
(* death of the process, may come in between                               *)
(***************************************************************************)
MaxCrashes == 1     \* deaths of the process in one behaviour

\* what the handlers of this specification are asked
StepRequests ==
    { [name |-> "update_meeting", args |-> [meeting_id |-> "e1", summary |-> "Weekly"]],
      [name |-> "update_meeting", args |-> [meeting_id |-> "e1", description |-> "Agenda"]],
      [name |-> "get_meeting", args |-> [meeting_id |-> "e1"]] }

ExpiringToken == [state |-> "ok", access |-> 0, expiry_date |-> 1]

Put(p, f) == [inflight EXCEPT ![p] = f]

Ended(p, kind, text) == Put(p, [inflight[p] EXCEPT !.pc = "done", !.kind = kind, !.text = text])

InitFailed(p, msg) == Ended(p, "isError", "Error initializing Google Meet API: " \o msg)

\* the transport hands a call to handleCallTool
Accept(p) ==
    /\ inflight[p].pc = "idle"
    /\ \E req \in StepRequests :
         inflight' = Put(p, [Idle EXCEPT !.pc = "guard", !.req = req])
    /\ UNCHANGED <<credFile, tokenFile, calendar, now, events, nextId, writes, request,
                   outcome, ops, fetched, sent, retrying, crashes>>

\* if (!this.googleMeet.calendar)
Guard(p) ==
    /\ inflight[p].pc = "guard"
    /\ inflight' = Put(p, [inflight[p] EXCEPT
                             !.pc = IF calendar.set THEN "tool" ELSE "readCredentials"])
    /\ UNCHANGED <<credFile, tokenFile, calendar, now, events, nextId, writes, request,
                   outcome, ops, fetched, sent, retrying, crashes>>

\* initialize(): the credentials file is read and checked
ReadCredentials(p) ==
    /\ inflight[p].pc = "readCredentials"
    /\ ops' = Append(ops, "readCredentials")
    /\ inflight' =
         IF credFile.state = "missing" THEN InitFailed(p, "ENOENT: no such file or directory")
         ELSE IF credFile.state = "malformed" THEN InitFailed(p, "Unexpected token in JSON")
         ELSE IF ~(credFile.web \/ credFile.installed)
         THEN InitFailed(p,
                "Invalid credentials file format. Must contain \"web\" or \"installed\" property.")
         ELSE Put(p, [inflight[p] EXCEPT !.pc = "readToken"])
    /\ UNCHANGED <<credFile, tokenFile, calendar, now, events, nextId, writes, request,
                   outcome, fetched, sent, retrying, crashes>>

\* initialize(): the token file is read, and its expiry compared with the clock
ReadToken(p) ==
    /\ inflight[p].pc = "readToken"
    /\ ops' = Append(ops, "readToken")
    /\ inflight' =
         IF tokenFile.state # "ok" THEN InitFailed(p, NoValidCredentials)
         ELSE Put(p, [inflight[p] EXCEPT
                        !.token = tokenFile,
                        !.pc = IF TokenExpired(tokenFile) THEN "refreshToken"
                               ELSE "setCalendar"])
    /\ UNCHANGED <<credFile, tokenFile, calendar, now, events, nextId, writes, request,
                   outcome, fetched, sent, retrying, crashes>>

\* initialize(): await oAuth2Client.refreshToken(); each refresh yields a new token
RefreshToken(p) ==
    /\ inflight[p].pc = "refreshToken"
    /\ ops' = Append(ops, "refreshToken")
    /\ \/ inflight' = InitFailed(p, NoValidCredentials)
       \/ inflight' = Put(p, [inflight[p] EXCEPT
                                !.pc = "writeOpen",
                                !.refreshed = TRUE,
                                !.token = [state |-> "ok",
                                           access |-> 1 + Cardinality({i \in 1..Len(ops) :
                                                                     ops[i] = "refreshToken"}),
                                           expiry_date |-> now + 1]])
    /\ UNCHANGED <<credFile, tokenFile, calendar, now, events, nextId, writes, request,
                   outcome, fetched, sent, retrying, crashes>>

\* initialize(): fs.writeFile opens the token file, which empties it
WriteOpen(p) ==
    /\ inflight[p].pc = "writeOpen"
    /\ ops' = Append(ops, "writeToken")
    /\ \/ /\ inflight' = InitFailed(p, NoValidCredentials)
          /\ UNCHANGED tokenFile
       \/ /\ inflight' = Put(p, [inflight[p] EXCEPT !.pc = "writeData"])
          /\ tokenFile' = Truncated
    /\ UNCHANGED <<credFile, calendar, now, events, nextId, writes, request,
                   outcome, fetched, sent, retrying, crashes>>

\* initialize(): fs.writeFile writes the new token into the opened file
WriteData(p) ==
    /\ inflight[p].pc = "writeData"
    /\ \/ /\ inflight' = InitFailed(p, NoValidCredentials)
          /\ UNCHANGED tokenFile
       \/ /\ inflight' = Put(p, [inflight[p] EXCEPT !.pc = "setCalendar"])
          /\ tokenFile' = inflight[p].token
    /\ UNCHANGED <<credFile, calendar, now, events, nextId, writes, request,
                   outcome, ops, fetched, sent, retrying, crashes>>

\* initialize(): this.calendar = google.calendar({auth: oAuth2Client})
SetCalendar(p) ==
    /\ inflight[p].pc = "setCalendar"
    /\ calendar' = [set |-> TRUE, access |-> inflight[p].token.access]
    /\ inflight' = Put(p, [inflight[p] EXCEPT !.pc = "tool"])
    /\ UNCHANGED <<credFile, tokenFile, now, events, nextId, writes, request,
                   outcome, ops, fetched, sent, retrying, crashes>>

\* a tool that makes one provider request: its branch of handleCallTool, to the end
Tool(p) ==
    /\ inflight[p].pc = "tool"
    /\ inflight[p].req.name # "update_meeting"
    /\ \E r \in Dispatch(inflight[p].req) :
         /\ inflight' = Ended(p, r.kind, r.text)
         /\ ops' = ops \o r.ops
         /\ events' = r.events
         /\ nextId' = r.nextId
    /\ UNCHANGED <<credFile, tokenFile, calendar, now, writes, request,
                   outcome, fetched, sent, retrying, crashes>>

\* update_meeting: the argument checks, then updateMeeting's events.get
UpdateFetch(p) ==
    LET args == inflight[p].req.args
        failed == Ended(p, "isError", "Error: Error updating meeting: " \o UpstreamFailure)
    IN  /\ inflight[p].pc = "tool"
        /\ inflight[p].req.name = "update_meeting"
        /\ IF Falsy(args, "meeting_id")
           THEN inflight' = Ended(p, "thrown", "meeting_id is required") /\ UNCHANGED ops
           ELSE IF DOMAIN UpdateData(args) = {}
           THEN /\ inflight' = Ended(p, "thrown", "At least one field to update must be provided")
                /\ UNCHANGED ops
           ELSE /\ ops' = Append(ops, "events.get")
                /\ \/ inflight' = failed
                   \/ /\ args.meeting_id \in DOMAIN events
                      /\ inflight' = Put(p, [inflight[p] EXCEPT
                                               !.pc = "writeBack",
                                               !.event = events[args.meeting_id]])
        /\ UNCHANGED <<credFile, tokenFile, calendar, now, events, nextId, writes, request,
                       outcome, fetched, sent, retrying, crashes>>

\* updateMeeting: the fields of updateData written over the fetched event
ApplyUpdate(old, updateData) ==
    LET Given(k) == k \in DOMAIN updateData
        e1 == IF Given("summary") THEN [old EXCEPT !.summary = updateData.summary] ELSE old
        e2 == IF Given("description")
              THEN [e1 EXCEPT !.description = updateData.description] ELSE e1
        e3 == IF Given("startTime")
              THEN [e2 EXCEPT !.start.dateTime = updateData.startTime] ELSE e2
        e4 == IF Given("endTime")
              THEN [e3 EXCEPT !.end.dateTime = updateData.endTime] ELSE e3
    IN  IF Given("attendees")
        THEN [e4 EXCEPT !.attendees = FormatAttendees(updateData.attendees.items)]
        ELSE e4

\* a write-back that merges the given fields into the event as the provider holds it now
UpdateWriteBack_Merges(p) ==
    LET id == inflight[p].req.args.meeting_id
        updateData == UpdateData(inflight[p].req.args)
        event == ApplyUpdate(IF id \in DOMAIN events THEN events[id] ELSE inflight[p].event,
                             updateData)
        r == Envelope(CheckReturned(event,
                                    "Updated event does not have Google Meet conferencing data",
                                    "Failed to format meeting data for updated event",
                                    "Error updating meeting: ",
                                    events, nextId, <<>>, <<>>, event), "object", "")
    IN  /\ inflight[p].pc = "writeBack"
        /\ IF "attendees" \in DOMAIN updateData /\ ~updateData.attendees.isArray
           THEN /\ inflight' = Ended(p, "isError",
                                     "Error: Error updating meeting: attendees.map is not a function")
                /\ UNCHANGED <<ops, events>>
           ELSE /\ ops' = Append(ops, "events.update")
                /\ \/ /\ inflight' = Ended(p, "isError",
                                           "Error: Error updating meeting: " \o UpstreamFailure)
                      /\ UNCHANGED events
                   \/ /\ id \in DOMAIN events
                      /\ events' = [events EXCEPT ![id] = event]
                      /\ inflight' = Ended(p, r.kind, r.text)
        /\ UNCHANGED <<credFile, tokenFile, calendar, now, nextId, writes, request,
                       outcome, fetched, sent, retrying, crashes>>

\* updateMeeting: the changed event is sent as events.update, which replaces the resource
UpdateWriteBack(p) ==
    LET id == inflight[p].req.args.meeting_id
        updateData == UpdateData(inflight[p].req.args)
        event == ApplyUpdate(inflight[p].event, updateData)
        r == Envelope(CheckReturned(event,
                                    "Updated event does not have Google Meet conferencing data",
                                    "Failed to format meeting data for updated event",
                                    "Error updating meeting: ",
                                    events, nextId, <<>>, <<>>, event), "object", "")
    IN  /\ inflight[p].pc = "writeBack"
        /\ IF "attendees" \in DOMAIN updateData /\ ~updateData.attendees.isArray
           THEN /\ inflight' = Ended(p, "isError",
                                     "Error: Error updating meeting: attendees.map is not a function")
                /\ UNCHANGED <<ops, events>>
           ELSE /\ ops' = Append(ops, "events.update")
                /\ \/ /\ inflight' = Ended(p, "isError",
                                           "Error: Error updating meeting: " \o UpstreamFailure)
                      /\ UNCHANGED events
                   \/ /\ id \in DOMAIN events
                      /\ events' = [events EXCEPT ![id] = event]
                      /\ inflight' = Ended(p, r.kind, r.text)
        /\ UNCHANGED <<credFile, tokenFile, calendar, now, nextId, writes, request,
                       outcome, fetched, sent, retrying, crashes>>

\* the process dies and the host starts it again: memory is lost (ops is the log of the
\* running process), files and calendar stay
Crash ==
    /\ crashes < MaxCrashes
    /\ \E p \in Handlers : inflight[p].pc # "idle"
    /\ crashes' = crashes + 1
    /\ inflight' = [p \in Handlers |-> Idle]
    /\ calendar' = NoCalendar
    /\ ops' = <<>>
    /\ UNCHANGED <<credFile, tokenFile, now, events, nextId, writes, request,
                   outcome, fetched, sent, retrying>>

StepInit ==
    /\ credFile = WebCredentials
    /\ tokenFile \in {PlainToken, ExpiringToken}
    /\ calendar = NoCalendar
    /\ now = 2
    /\ events = SeedEvents
    /\ nextId = Cardinality(DOMAIN SeedEvents) + 1
    /\ writes = 0
    /\ request = [name |-> "", args |-> <<>>]
    /\ outcome = NoOutcome
    /\ ops = <<>>
    /\ fetched = <<>>
    /\ sent = NoEvent
    /\ retrying = FALSE
    /\ inflight = [p \in Handlers |-> Idle]
    /\ crashes = 0

Step(p) ==
    \/ Accept(p)
    \/ Guard(p)
    \/ ReadCredentials(p)
    \/ ReadToken(p)
    \/ RefreshToken(p)
    \/ WriteOpen(p)
    \/ WriteData(p)
    \/ SetCalendar(p)
    \/ Tool(p)
    \/ UpdateFetch(p)
    \/ UpdateWriteBack(p)

StepNext == (\E p \in Handlers : Step(p)) \/ Crash

StepSpec == StepInit /\ [][StepNext]_vars

(***************************************************************************)
(* Properties                                                              *)
(***************************************************************************)
Handled == outcome.kind # "none"

ProviderOps == {"events.list", "events.get", "events.insert", "events.update",
                "events.delete"}
Did(op) == \E i \in 1..Len(ops) : ops[i] = op
NoProviderCall == \A i \in 1..Len(ops) : ops[i] \notin ProviderOps
NoUpstreamCall == NoProviderCall /\ ~Did("refreshToken")

ThrownWith(code) == outcome.kind = "thrown" /\ outcome.code = code

\* C1: a call of a tool that is not registered ends in a thrown MethodNotFound, never in
\* an isError envelope, whatever the session state, and reaches no provider operation.
C1_UnknownToolThrowsMethodNotFound ==
    (Handled /\ request.name \notin ToolNames)
        => (ThrownWith("MethodNotFound") /\ NoProviderCall)

\* C2: update_meeting with a meeting_id and none of the five updatable fields ends in a
\* thrown InvalidParams, and the call makes no provider or auth-server request.
C2_EmptyUpdateThrowsWithoutUpstreamCall ==
    (Handled /\ request.name = "update_meeting" /\ ~Falsy(request.args, "meeting_id")
       /\ DOMAIN request.args \cap UpdateKeys = {})
        => (ThrownWith("InvalidParams") /\ NoUpstreamCall)

\* the required arguments of create_meeting that the call omits, in the schema's order
OmittedOfCreate ==
    SelectSeq(<<"summary", "start_time", "end_time">>, LAMBDA k : ~Has(request.args, k))

OmitsRequired ==
    \/ request.name = "create_meeting" /\ OmittedOfCreate # <<>>
    \/ /\ request.name \in {"get_meeting", "update_meeting", "delete_meeting"}
       /\ ~Has(request.args, "meeting_id")

\* C3: a call that omits a required argument ends in a thrown InvalidParams before any
\* provider operation; for create_meeting the message names exactly the omitted fields.
C3_OmittedRequiredThrowsInvalidParams ==
    (Handled /\ OmitsRequired)
        => /\ ThrownWith("InvalidParams")
           /\ NoProviderCall
           /\ request.name = "create_meeting"
                => outcome.text = "Missing required parameters: " \o Join(OmittedOfCreate, ", ")

C5_SessionFailureShortCircuits ==
    (Handled /\ ~calendar.set)
        => (outcome.kind = "isError" /\ outcome.cause = "session" /\ NoProviderCall)

C5_Witness ==
    /\ request.name = "create_meeting"
    /\ DOMAIN request.args = CreateKeys
    /\ ~calendar.set
    /\ outcome.kind = "isError"
    /\ ops = <<"readCredentials", "readToken", "refreshToken">>

WrongType ==
    \/ /\ request.name \in {"create_meeting", "update_meeting"}
       /\ Has(request.args, "attendees")
       /\ ~request.args.attendees.isArray
    \/ /\ request.name = "list_meetings"
       /\ Has(request.args, "max_results")
       /\ ~request.args.max_results.isNumber

\* C6: a call with an argument of the wrong type for the tool's schema ends in a thrown
\* InvalidParams before any provider operation, never in an isError envelope (stated for
\* the calls whose session is established, where no session failure comes first).
C6_WrongTypeThrowsInvalidParams ==
    (Handled /\ calendar.set /\ WrongType) => (ThrownWith("InvalidParams") /\ NoProviderCall)

HasVideoEntry(event) ==
    /\ event.conferenceData.present
    /\ \E i \in 1..Len(event.conferenceData.entryPoints) :
         event.conferenceData.entryPoints[i].entryPointType = "video"

Ids(seq) == [i \in 1..Len(seq) |-> seq[i].id]

\* C7: list_meetings returns no event without conferencing data and none without a "video"
\* entry point; those are dropped, the call does not fail for them, and what is returned
\* keeps the order of the provider's items.
C7_ListDropsNonMeetings ==
    (request.name = "list_meetings" /\ Did("events.list") /\ outcome.cause # "upstream")
        => /\ outcome.kind = "success"
           /\ \A i \in 1..Len(outcome.meetings) :
                \E j \in 1..Len(fetched) :
                    /\ fetched[j].id = outcome.meetings[i].id
                    /\ HasVideoEntry(fetched[j])
                    /\ outcome.meetings[i].meet_link # ""
           /\ Ids(outcome.meetings)
                = SelectSeq(Ids(fetched),
                            LAMBDA id : \E i \in 1..Len(outcome.meetings) :
                                            outcome.meetings[i].id = id)

C7_Witness ==
    /\ request.name = "list_meetings"
    /\ outcome.kind = "success"
    /\ Len(outcome.meetings) = 2
    /\ Len(fetched) = 4
    /\ \E j \in 1..Len(fetched) : fetched[j].conferenceData = PhoneOnly
    /\ \E j \in 1..Len(fetched) : ~fetched[j].conferenceData.present

\* C8: get_meeting on an event without conferencing data, or without a "video" entry
\* point, ends in an isError envelope; a success of get_meeting carries one Meeting with
\* a meet_link.
C8_GetWithoutVideoIsError ==
    (request.name = "get_meeting" /\ Handled)
        => /\ (Len(fetched) = 1 /\ ~HasVideoEntry(fetched[1])) => outcome.kind = "isError"
           /\ outcome.kind = "success"
                => /\ Len(outcome.meetings) = 1
                   /\ outcome.meetings[1].meet_link # ""
                   /\ outcome.shape = "object"

C8_Witness ==
    /\ request.name = "get_meeting"
    /\ Len(fetched) = 1
    /\ fetched[1].conferenceData = PhoneOnly
    /\ outcome.kind = "isError"

\* C9: the resource update_meeting writes back has each of summary, description, start
\* time, end time and attendees equal to the argument when it is present (an empty string
\* or empty list included) and to the fetched event's value when it is absent; every
\* other field is the fetched event's.
C9_UpdateWritesOnlyGivenFields ==
    (request.name = "update_meeting" /\ Did("events.update"))
        => LET a == request.args
               old == fetched[1]
           IN  /\ Len(fetched) = 1
               /\ sent.summary = IF Has(a, "summary") THEN a.summary ELSE old.summary
               /\ sent.description
                    = IF Has(a, "description") THEN a.description ELSE old.description
               /\ sent.start.dateTime
                    = IF Has(a, "start_time") THEN a.start_time ELSE old.start.dateTime
               /\ sent.end.dateTime
                    = IF Has(a, "end_time") THEN a.end_time ELSE old.end.dateTime
               /\ IF Has(a, "attendees")
                  THEN [i \in 1..Len(sent.attendees) |-> sent.attendees[i].email]
                         = a.attendees.items
                  ELSE sent.attendees = old.attendees
               /\ sent.id = old.id
               /\ sent.start.date = old.start.date
               /\ sent.start.timeZone = old.start.timeZone
               /\ sent.end.date = old.end.date
               /\ sent.end.timeZone = old.end.timeZone
               /\ sent.conferenceData = old.conferenceData
               /\ sent.createRequest = old.createRequest
               /\ outcome.cause # "upstream" => events[a.meeting_id] = sent

C9_Witness ==
    /\ request.name = "update_meeting"
    /\ DOMAIN request.args = {"meeting_id", "description", "attendees"}
    /\ outcome.kind = "success"
    /\ Len(fetched) = 1
    /\ fetched[1].description = "Notes"
    /\ fetched[1].attendees # <<>>
    /\ sent.description = ""
    /\ sent.attendees = <<>>
    /\ sent.summary = "Sync"

\* C10: a call that ends in an error, thrown or flagged, leaves the provider's calendar as
\* it was before the call, and a call whose provider mutation failed does not report success.
C10_NoErrorPartiallyApplied ==
    [][ /\ outcome'.kind \in {"isError", "thrown"} => events' = events
        /\ outcome'.cause = "upstream" => outcome'.kind # "success" ]_vars

\* the event the provider returned for the insert of the last call
Inserted == events[EventIds[nextId - 1]]

InsertAnswered ==
    /\ request.name = "create_meeting"
    /\ Did("events.insert")
    /\ outcome.cause # "upstream"

\* C11: create_meeting succeeds only with a meeting link: when the inserted event comes
\* back without conferencing data or without a video entry point the call ends in an
\* isError envelope, and every success envelope carries one Meeting, that of the inserted
\* event, with a non-empty meet_link.
C11_CreateSucceedsOnlyWithLink ==
    /\ (InsertAnswered /\ ~HasVideoEntry(Inserted)) =>
         (outcome.kind = "isError" /\ outcome.meetings = <<>>)
    /\ (request.name = "create_meeting" /\ outcome.kind = "success") =>
         /\ InsertAnswered
         /\ Len(outcome.meetings) = 1
         /\ outcome.meetings[1].meet_link # ""
         /\ outcome.meetings[1].id = Inserted.id

C11_Witness ==
    /\ InsertAnswered
    /\ Inserted.conferenceData = PhoneOnly
    /\ outcome.kind = "isError"

\* the e-mail addresses the call gave, in the order it gave them
GivenEmails ==
    IF Has(request.args, "attendees") THEN request.args.attendees.items ELSE <<>>

Emails(attendees) == [i \in 1..Len(attendees) |-> attendees[i].email]

\* C12: create_meeting keeps its inputs: the insert payload carries the attendees as
\* {email} objects in input order and a request for conferencing, and the Meeting of a
\* success envelope has the summary, start and end times and attendee e-mails of the call.
C12_CreateKeepsItsInputs ==
    /\ (request.name = "create_meeting" /\ Did("events.insert")) =>
         /\ sent.summary = request.args.summary
         /\ sent.start.dateTime = request.args.start_time
         /\ sent.end.dateTime = request.args.end_time
         /\ Emails(sent.attendees) = GivenEmails
         /\ sent.createRequest.present
    /\ (request.name = "create_meeting" /\ outcome.kind = "success") =>
         LET m == outcome.meetings[1]
         IN  /\ m.summary = request.args.summary
             /\ m.start_time = request.args.start_time
             /\ m.end_time = request.args.end_time
             /\ Emails(m.attendees) = GivenEmails

C12_Witness ==
    /\ request.name = "create_meeting"
    /\ outcome.kind = "success"
    /\ GivenEmails = <<"a@x.com", "b@x.com">>
    /\ Emails(outcome.meetings[1].attendees) = GivenEmails

\* op was performed before the first provider operation of the last call
BeforeProvider(op) ==
    \A i \in 1..Len(ops) : ops[i] \in ProviderOps => \E j \in 1..(i - 1) : ops[j] = op

\* C13: a call that establishes the session from a token whose expiry is in the past makes
\* exactly one refresh request and writes the token file exactly once, both before any
\* provider operation of the call, and the session holds the refreshed token, which is the
\* token now in the file.
C13_ExpiredTokenRefreshedOnceBeforeUse ==
    [][ (~calendar.set /\ tokenFile.state = "ok" /\ TokenExpired(tokenFile) /\ calendar'.set)
          => /\ Count("refreshToken")' = 1
             /\ Count("writeToken")' = 1
             /\ BeforeProvider("refreshToken")'
             /\ BeforeProvider("writeToken")'
             /\ tokenFile' # tokenFile
             /\ tokenFile'.state = "ok"
             /\ tokenFile'.expiry_date > now
             /\ calendar'.access = tokenFile'.access
             /\ calendar'.access # tokenFile.access ]_vars

C13_Witness ==
    /\ calendar.set
    /\ Did("refreshToken")
    /\ Did("writeToken")
    /\ Did("events.list")
    /\ outcome.kind = "success"
    /\ calendar.access = tokenFile.access

SessionOps == {"readCredentials", "readToken", "refreshToken", "writeToken"}

\* C14: once the session is established no tool call, failing or not, reads the
\* credentials file or the token file again, refreshes or rewrites the token, or changes
\* or drops the in-memory context.
C14_EstablishedSessionIsReused ==
    [][ calendar.set
          => /\ calendar' = calendar
             /\ tokenFile' = tokenFile
             /\ now' = now => \A i \in 1..Len(ops') : ops'[i] \notin SessionOps ]_vars

C14_Witness ==
    /\ calendar.set
    /\ outcome.kind = "isError"
    /\ outcome.cause = "upstream"
    /\ ops = <<"events.get">>

\* C15: when the token of an established session has expired, the next tool call
\* refreshes it and writes the new token to the token file, so that the file and the
\* session hold the same, unexpired token when the call is over.
C15_ExpiryInSessionRefreshesAndPersists ==
    [][ (calendar.set /\ TokenExpired(tokenFile) /\ now' = now)
          => /\ Did("refreshToken")'
             /\ Did("writeToken")'
             /\ ~TokenExpired(tokenFile)'
             /\ calendar'.access = tokenFile'.access ]_vars

\* C16: once a call has failed to establish the session, later calls on the same server
\* object do not read the credentials or the token again and do not refresh; they fail
\* in the same way.
C16_FailedSessionIsTerminal ==
    [][ (outcome.cause = "session" /\ ~calendar.set /\ now' = now)
          => /\ ~calendar'.set
             /\ outcome'.cause = "session"
             /\ \A i \in 1..Len(ops') : ops'[i] \notin SessionOps ]_vars

\* C16 as amended: a failed initialize() is not terminal.  The next call on the same
\* server object runs initialize() again, once: it reads the credentials file first, reads
\* the token and refreshes at most once, and the call fails with the session error when
\* that attempt fails and goes on to the tool when it succeeds.
C16_FailedSessionIsRetriedByNextCall ==
    [][ (outcome.cause = "session" /\ ~calendar.set /\ now' = now)
          => /\ Len(ops') > 0
             /\ ops'[1] = "readCredentials"
             /\ \A op \in SessionOps : Count(op)' <= 1
             /\ calendar'.set <=> outcome'.cause # "session"
             /\ ~calendar'.set => (outcome'.kind = "isError" /\ NoProviderCall') ]_vars

C16_Witness ==
    /\ retrying
    /\ calendar.set
    /\ Did("refreshToken")
    /\ outcome.kind = "success"

CredentialsLoaded == Did("readToken")

\* C19: in a call that reads the credentials file, the credentials load exactly when the
\* file parses and holds one, and only one, of the sections "web" and "installed".
C19_CredentialsLoadWithExactlyOneSection ==
    (Handled /\ Did("readCredentials"))
        => (CredentialsLoaded <=> (credFile.state = "ok" /\ credFile.web # credFile.installed))

\* C19 as amended: the credentials load exactly when the file parses and holds at least
\* one of the two sections; a file with both loads (and, the token being valid, the
\* session is established), a file with neither fails the call with the session error.
C19_CredentialsLoadWithEitherSection ==
    (Handled /\ Did("readCredentials"))
        => /\ CredentialsLoaded <=> (credFile.state = "ok" /\ (credFile.web \/ credFile.installed))
           /\ (credFile.state = "ok" /\ credFile.web /\ credFile.installed
                 /\ tokenFile = PlainToken) => calendar.set
           /\ (credFile.state = "ok" /\ ~credFile.web /\ ~credFile.installed)
                => (~calendar.set /\ outcome.kind = "isError" /\ outcome.cause = "session")

C19_Witness ==
    /\ Did("readCredentials")
    /\ credFile.web
    /\ credFile.installed
    /\ calendar.set
    /\ outcome.kind = "success"

GetAnswered ==
    /\ request.name = "get_meeting"
    /\ ~Falsy(request.args, "meeting_id")
    /\ Did("events.get")

\* what get_meeting returned is the event as the provider holds it
GetReflectsUpstream ==
    GetAnswered =>
        LET id == request.args.meeting_id
        IN  /\ id \notin DOMAIN events => outcome.kind = "isError"
            /\ outcome.kind = "success" =>
                 /\ id \in DOMAIN events
                 /\ Len(outcome.meetings) = 1
                 /\ outcome.meetings[1].id = id
                 /\ outcome.meetings[1].summary = events[id].summary
                 /\ outcome.meetings[1].description = events[id].description
                 /\ outcome.meetings[1].start_time = events[id].start.dateTime
                 /\ outcome.meetings[1].end_time = events[id].end.dateTime
                 /\ Emails(outcome.meetings[1].attendees) = Emails(events[id].attendees)
                 /\ \E i \in 1..Len(events[id].conferenceData.entryPoints) :
                      events[id].conferenceData.entryPoints[i].uri = outcome.meetings[1].meet_link

\* a second get_meeting of the same id, the provider's calendar unchanged, returns the same
GetTwiceAgrees ==
    (/\ GetAnswered /\ outcome.kind = "success"
     /\ GetAnswered' /\ outcome'.kind = "success"
     /\ request'.args.meeting_id = request.args.meeting_id
     /\ events' = events)
        => outcome'.meetings = outcome.meetings

\* C17: get_meeting reads the provider at the time of the call: what it returns is the
\* event as the provider then holds it, also after an update or a delete made through the
\* server, and two calls in a row on an unchanged calendar return equal meetings.
C17_GetReadsUpstreamAtCallTime == []GetReflectsUpstream /\ [][GetTwiceAgrees]_vars

C17_Witness ==
    /\ GetAnswered
    /\ outcome.kind = "success"
    /\ request.args.meeting_id = "e1"
    /\ outcome.meetings[1].summary = "Weekly"
    /\ SeedEvents["e1"].summary # "Weekly"

\* C18: delete_meeting with an identifier, on an established session, makes one
\* events.delete and no other provider request; it returns the plain acknowledgment, with
\* no meeting, exactly when the provider removed that event, and an isError envelope
\* otherwise, the calendar then being as it was.
C18_DeleteAcknowledgesExactlyTheDelete ==
    [][ (/\ request'.name = "delete_meeting"
         /\ ~Falsy(request'.args, "meeting_id")
         /\ calendar'.set
         /\ now' = now)
          => LET id == request'.args.meeting_id
                 removed == /\ id \in DOMAIN events
                            /\ events' = [k \in DOMAIN events \ {id} |-> events[k]]
             IN  /\ Count("events.delete")' = 1
                 /\ \A i \in 1..Len(ops') : ops'[i] \in ProviderOps => ops'[i] = "events.delete"
                 /\ outcome'.kind \in {"success", "isError"}
                 /\ outcome'.kind = "success" <=> removed
                 /\ outcome'.kind = "success"
                      => /\ outcome'.meetings = <<>>
                         /\ outcome'.shape = "text"
                         /\ outcome'.text = "Meeting successfully deleted"
                 /\ outcome'.kind = "isError" => (events' = events /\ outcome'.text # "") ]_vars

C18_Witness ==
    /\ request.name = "delete_meeting"
    /\ outcome.kind = "success"
    /\ ops = <<"events.delete">>
    /\ request.args.meeting_id \in DOMAIN SeedEvents
    /\ request.args.meeting_id \notin DOMAIN events

Advertised == {HandleListTools[i].name : i \in 1..Len(HandleListTools)}

Schema(name) ==
    HandleListTools[CHOOSE i \in 1..Len(HandleListTools) : HandleListTools[i].name = name]

\* the check of update_meeting that is about no single field
NothingToUpdate ==
    /\ request.name = "update_meeting"
    /\ DOMAIN request.args \cap (Schema("update_meeting").properties \ {"meeting_id"}) = {}

RefreshInFlight(p) == inflight[p].refreshed /\ inflight[p].pc \in {"writeOpen", "writeData"}

\* C21: the refresh is a critical section: of the calls being handled at one time, at
\* most one has a refresh of its own in flight (a second one waits for that result), so
\* concurrent calls make no second refresh request and no second write of the token file.
C21_RefreshIsCriticalSection ==
    Cardinality({p \in Handlers : RefreshInFlight(p)}) <= 1

\* C22: at every point, also in the middle of the rewrite after a refresh and after a
\* death of the process there, the token file holds a complete token, the old one or the
\* new one.
C22_TokenFileNeverHalfWritten ==
    tokenFile.state = "ok"

\* the last call sent an event that asks the provider for a new conference
SentCreateRequest == sent.createRequest.present

\* C23: two create_meeting calls never send the same conferencing-creation request id,
\* however little time lies between them (here: a call that follows another with the
\* clock unchanged), and the event an update_meeting sends carries no such request.
C23_CreateRequestIdIsFresh ==
    /\ [](Did("events.update") => ~SentCreateRequest)
    /\ [][ (SentCreateRequest /\ SentCreateRequest' /\ now' = now)
             => sent'.createRequest.requestId # sent.createRequest.requestId ]_vars

\* handler p ends an update_meeting with success in this step
WroteBack(p) ==
    /\ inflight[p].pc = "writeBack"
    /\ inflight'[p].pc = "done"
    /\ inflight'[p].kind = "success"

\* C24: the write-back of update_meeting replaces the whole event with the one the call
\* fetched, changed in the fields the call was given: every other field goes back to what
\* the call fetched, whatever the provider holds by then, so a change another writer made
\* between the fetch and the write-back is lost, and the call still reports success.
C24_WriteBackOverwritesInterveningChange ==
    [][ \A p \in Handlers : WroteBack(p) =>
          LET id == inflight[p].req.args.meeting_id
              data == UpdateData(inflight[p].req.args)
              was == inflight[p].event
          IN  /\ events'[id].summary =
                    (IF "summary" \in DOMAIN data THEN data.summary ELSE was.summary)
              /\ events'[id].description =
                    (IF "description" \in DOMAIN data THEN data.description ELSE was.description)
              /\ "startTime" \notin DOMAIN data => events'[id].start = was.start
              /\ "endTime" \notin DOMAIN data => events'[id].end = was.end
              /\ "attendees" \notin DOMAIN data => events'[id].attendees = was.attendees
              /\ events'[id].conferenceData = was.conferenceData ]_vars

\* two concurrent updates of e1, one of the summary and one of the description, have both
\* reported success, and the new summary is gone
C24_Witness ==
    \E p, q \in Handlers :
        /\ p # q
        /\ inflight[p].pc = "done" /\ inflight[p].kind = "success"
        /\ inflight[q].pc = "done" /\ inflight[q].kind = "success"
        /\ inflight[p].req = [name |-> "update_meeting",
                              args |-> [meeting_id |-> "e1", summary |-> "Weekly"]]
        /\ inflight[q].req = [name |-> "update_meeting",
                              args |-> [meeting_id |-> "e1", description |-> "Agenda"]]
        /\ events["e1"].description = "Agenda"
        /\ events["e1"].summary = SeedEvents["e1"].summary
        /\ SeedEvents["e1"].summary # "Weekly"

\* the events of the calendar inside the window of the list_meetings call req
InWindow(req) ==
    LET tMin == IF StrArg(req.args, "time_min") = "" THEN ToISOString(now)
                ELSE req.args.time_min
        tMax == StrArg(req.args, "time_max")
    IN  { id \in DOMAIN events :
            /\ Rank(events[id].end.dateTime) > Rank(tMin)
            /\ (tMax # "" => Rank(events[id].start.dateTime) < Rank(tMax)) }

\* the limit of the list_meetings call req
Limit(req) ==
    IF ~Has(req.args, "max_results") \/ req.args.max_results.n = 0 THEN 10
    ELSE req.args.max_results.n

Least(a, b) == IF a < b THEN a ELSE b

\* C25: in a list_meetings call that succeeds, the limit (10 when max_results is absent
\* or 0) bounds the events the provider returns, before the conferencing filter: the
\* provider returns the first "limit" events of the window, meetings or not, and the
\* answer is the meetings among those, so it is never longer than the limit and may be
\* shorter than it while meetings of the window were left unfetched.
C25_LimitAppliesBeforeTheFilter ==
    [][ (request'.name = "list_meetings" /\ outcome'.kind = "success" /\ now' = now)
          => /\ Len(fetched') = Least(Limit(request'), Cardinality(InWindow(request')))
             /\ \A i \in 1..Len(fetched') : fetched'[i].id \in InWindow(request')
             /\ Len(outcome'.meetings) <= Limit(request')
             /\ Len(outcome'.meetings) =
                  Cardinality({i \in 1..Len(fetched') : FormatMeetingData(fetched'[i]) # <<>>})
             /\ \A i \in 1..Len(outcome'.meetings) :
                  \E j \in 1..Len(fetched') : fetched'[j].id = outcome'.meetings[i].id ]_vars

\* a list with max_results 1 has answered with no meeting: the one slot went to an event
\* without conferencing data, while meetings of the same window were not fetched
C25_Witness ==
    /\ request.name = "list_meetings"
    /\ Has(request.args, "max_results")
    /\ request.args.max_results = [isNumber |-> TRUE, n |-> 1]
    /\ outcome.kind = "success"
    /\ outcome.meetings = <<>>
    /\ Len(fetched) = 1
    /\ ~fetched[1].conferenceData.present
    /\ \E id \in InWindow(request) : FormatMeetingData(events[id]) # <<>>

\* the call taken in this step, on an established session, names an event the provider
\* holds and that does not map to a meeting
OnNonMeeting(tool) ==
    /\ request'.name = tool
    /\ now' = now
    /\ calendar'.set
    /\ ~Falsy(request'.args, "meeting_id")
    /\ request'.args.meeting_id \in DOMAIN events
    /\ FormatMeetingData(events[request'.args.meeting_id]) = <<>>

\* C26: delete_meeting does not look at the event before deleting it: on an event that is
\* no meeting it makes the events.delete alone, never answers with the "no conferencing
\* data" error, and reports success with the event gone.  update_meeting on such an event
\* never succeeds, and when it answers with the conferencing error the events.update has
\* been made and the provider holds the modified event.
C26_NoMeetingCheckBeforeDeleteOrUpdate ==
    [][ /\ OnNonMeeting("delete_meeting")
           => /\ ops'[Len(ops')] = "events.delete"
              /\ ~Did("events.get")'
              /\ outcome'.cause \in {"none", "upstream"}
              /\ outcome'.cause = "none"
                   => /\ outcome'.kind = "success"
                      /\ request'.args.meeting_id \notin DOMAIN events'
        /\ (OnNonMeeting("update_meeting") /\ DOMAIN UpdateData(request'.args) # {})
           => /\ outcome'.kind = "isError"
              /\ outcome'.cause = "conference"
                   => /\ ops'[Len(ops')] = "events.update"
                      /\ sent' # NoEvent
                      /\ events'[request'.args.meeting_id] = sent' ]_vars

\* an event without conferencing data, which get_meeting rejects, has been deleted with
\* success
C26_Witness ==
    /\ request.name = "delete_meeting"
    /\ request.args = [meeting_id |-> "e2"]
    /\ FormatMeetingData(SeedEvents["e2"]) = <<>>
    /\ outcome.kind = "success"
    /\ outcome.text = "Meeting successfully deleted"
    /\ "e2" \notin DOMAIN events

\* the call before ended in initialize() with the refresh made and the write of the token
\* file failed
WriteFailed == ~calendar.set /\ outcome.cause = "session" /\ Did("writeToken")

\* C27: a call that reaches the token part of initialize() and does not establish the
\* session ends, whatever failed there, in the one "No valid credentials" error with no
\* provider request and no session; when it was the write of the token file that failed,
\* the refreshed token is not kept, and the next call reads the old token from the file
\* and refreshes again.
C27_TokenPathFailuresAreOneError ==
    [][ /\ (now' = now /\ Did("readToken")' /\ ~calendar'.set)
           => /\ outcome'.kind = "isError"
              /\ outcome'.text = "Error initializing Google Meet API: " \o NoValidCredentials
              /\ NoProviderCall'
              /\ calendar' = NoCalendar
        /\ (now' = now /\ WriteFailed)
           => /\ Did("readToken")'
              /\ Did("refreshToken")' ]_vars

\* the uri of the first entry point of the event, in list order, whose type is "video";
\* "" when it has none or the event has no "video" entry point
FirstVideoUri(event) ==
    LET eps == event.conferenceData.entryPoints
        videos == { i \in 1..Len(eps) : eps[i].entryPointType = "video" }
    IN  IF videos = {} THEN ""
        ELSE eps[CHOOSE i \in videos : \A j \in videos : i <= j].uri

\* the event a returned meeting was made from: the one fetched by list_meetings and
\* get_meeting, the one the provider stored for create_meeting and update_meeting
SourceOf(meeting) ==
    IF request.name \in {"list_meetings", "get_meeting"}
    THEN fetched[CHOOSE j \in 1..Len(fetched) : fetched[j].id = meeting.id]
    ELSE events[meeting.id]

\* C28: the meet_link of every returned meeting is the uri of the first "video" entry
\* point of its event; an event whose first "video" entry point has no uri is no meeting,
\* whatever entry points follow it: list_meetings leaves it out, and get_meeting,
\* create_meeting and update_meeting end in an isError envelope.
C28_LinkIsFirstVideoEntry ==
    /\ \A i \in 1..Len(outcome.meetings) :
         /\ outcome.meetings[i].meet_link # ""
         /\ outcome.meetings[i].meet_link = FirstVideoUri(SourceOf(outcome.meetings[i]))
    /\ (request.name = "list_meetings" /\ outcome.kind = "success")
         => \A j \in 1..Len(fetched) :
              FirstVideoUri(fetched[j]) = ""
                => \A i \in 1..Len(outcome.meetings) : outcome.meetings[i].id # fetched[j].id
    /\ (GetAnswered /\ Len(fetched) = 1 /\ FirstVideoUri(fetched[1]) = "")
         => outcome.kind = "isError"
    /\ (InsertAnswered /\ FirstVideoUri(Inserted) = "") => outcome.kind = "isError"
    /\ (request.name = "update_meeting" /\ Did("events.update") /\ outcome.cause # "upstream"
          /\ FirstVideoUri(events[request.args.meeting_id]) = "")
         => outcome.kind = "isError"

\* get_meeting has rejected an event whose first video entry point has no uri and whose
\* second one has
C28_Witness ==
    /\ GetAnswered
    /\ Len(fetched) = 1
    /\ fetched[1].conferenceData = BlankThenVideo
    /\ BlankThenVideo.entryPoints[2].uri # ""
    /\ outcome.kind = "isError"
    /\ outcome.cause = "conference"

\* the call taken in this step runs initialize() and gets as far as a readable token
LoadsToken ==
    /\ ~calendar.set
    /\ now' = now
    /\ Did("readToken")'
    /\ tokenFile.state = "ok"

\* C29: initialize() asks for a refresh exactly when the stored token has an expiry that
\* is not 0 and lies before the clock.  A token without expiry (0) is not refreshed and
\* the token file is not written: the session is established with the token as read.
C29_NoExpiryNeverRefreshes ==
    [][ LoadsToken
          => /\ Did("refreshToken")' <=> (tokenFile.expiry_date # 0 /\ tokenFile.expiry_date < now)
             /\ Did("writeToken")' => Did("refreshToken")'
             /\ tokenFile.expiry_date = 0
                  => /\ ~Did("refreshToken")'
                     /\ ~Did("writeToken")'
                     /\ tokenFile' = tokenFile
                     /\ calendar'.set
                     /\ calendar'.access = tokenFile.access ]_vars

\* the session was established, after the clock had moved on, from a token without expiry
C29_Witness ==
    /\ calendar.set
    /\ tokenFile.state = "ok"
    /\ tokenFile.expiry_date = 0
    /\ now = MaxTime
    /\ ops = <<"readCredentials", "readToken", "events.list">>
    /\ outcome.kind = "success"


====
